---- MODULE Spec2Model ----
(***************************************************************************)
(* Model of the yalla-mcp gateway (smh.go, service.go, main.go): the       *)
(* signed RPC call path CallService -> Post -> httpPost, the API wrappers  *)
(* built on it, and the start-up derivation of the identity triple.        *)
(*                                                                         *)
(* A Go string is modelled as a sequence of tokens (substrings); the empty *)
(* string is <<>>, concatenation is \o, fmt.Sprintf is the concatenation   *)
(* of its literal pieces and its formatted arguments.                      *)
(***************************************************************************)
EXTENDS Integers, Sequences, FiniteSets, TLC

VARIABLES phase, DeviceID, AppID, AppSecret, secretReq, secretFetch, inbound, calls

vars == <<phase, DeviceID, AppID, AppSecret, secretReq, secretFetch, inbound, calls>>

\* ------------------------------------------------------------------ bounds
MaxStrLen == 1
MaxListLen == 1

\* --------------------------------------------------------------- Go values
Empty == <<>>

Chars == {" ", "a"}

\* the string arguments a caller may pass: every string over Chars up to MaxStrLen
StrInputs == UNION {[1..n -> Chars] : n \in 0..MaxStrLen}

\* the []int arguments a caller may pass
IntLists == UNION {[1..n -> {1}] : n \in 0..MaxListLen}

\* map[string]any arguments: finite maps over one key
SlotMaps == UNION {[D -> {1}] : D \in SUBSET {"on"}}

\* []string arguments; Go distinguishes a nil slice from an empty one
NilSlice == [isNil |-> TRUE, elems |-> <<>>]

Slice(s) == [isNil |-> FALSE, elems |-> s]

StrLists == {NilSlice, Slice(<<"p">>)}

\* *T values
Nil == [isNil |-> TRUE, val |-> "none"]

Ptr(v) == [isNil |-> FALSE, val |-> v]

IsSpace(c) == c = " "

RECURSIVE TrimLeft(_)
TrimLeft(s) ==
  IF s # <<>> /\ IsSpace(Head(s)) THEN TrimLeft(Tail(s)) ELSE s

RECURSIVE TrimRight(_)
TrimRight(s) ==
  IF s # <<>> /\ IsSpace(s[Len(s)]) THEN TrimRight(SubSeq(s, 1, Len(s) - 1)) ELSE s

TrimSpace(s) == TrimRight(TrimLeft(s))

ToUpper(s) == [i \in 1..Len(s) |-> IF s[i] = "a" THEN "A" ELSE s[i]]

\* strings.Replace(s, old, "", -1) for a one-token old
RECURSIVE RemoveAll(_, _)
RemoveAll(s, old) ==
  IF s = <<>> THEN <<>>
  ELSE IF Head(s) = old THEN RemoveAll(Tail(s), old)
  ELSE <<Head(s)>> \o RemoveAll(Tail(s), old)

\* strings.Join(parts, sep)
RECURSIVE Join(_, _)
Join(parts, sep) ==
  IF parts = <<>> THEN <<>>
  ELSE IF Len(parts) = 1 THEN parts[1]
  ELSE parts[1] \o sep \o Join(Tail(parts), sep)

Tokens(s) == {s[i] : i \in 1..Len(s)}

\* ----------------------------------------------------------- configuration
\* scheme and host in the first token, the path in the rest
API_BASE_URL == <<"https://ai-echo.aqara.cn", "/echo/mcp">>

API_KEY == <<"api-key">>

Version == <<"0.0.3">>

RequestSignatureHeaderAccessKey == "X-Access-Key"

RequestSignatureHeaderSignature == "X-Signature"

RequestSignatureHeaderTimestamp == "X-Timestamp"

RequestSignatureHeaderNonce == "X-Nonce"

\* ------------------------------------------------------------ the requests
\* RequestBody.Params payloads are records with a kind; a Go channel or func
\* (kind "chan") is a value encoding/json cannot serialize
Serializable(data) == data.kind # "chan"

\* json.Marshal(RequestBody): fails exactly when Params cannot be serialized;
\* the bytes are one opaque token holding the encoded value
Marshal(reqData) ==
  [err |-> ~Serializable(reqData.Params), bytes |-> <<reqData>>]

\* http.NewRequest fails when url.Parse rejects the URL (a control character,
\* written here as the token "<DEL>")
NewRequestErr(url) == "<DEL>" \in Tokens(url)

\* request.URL.RequestURI(): the path (and query) without scheme and host
RequestURI(url) == Tail(url)

\* textproto.CanonicalMIMEHeaderKey
CanonicalKey(k) ==
  CASE k = "app_lang" -> "App_lang"
    [] k = "lang" -> "Lang"
    [] k = "app_id" -> "App_id"
    [] k = "time_zone" -> "Time_zone"
    [] OTHER -> k

\* http.Header: header name -> list of values
HeaderSet(h, k, v) ==
  [x \in DOMAIN h \cup {CanonicalKey(k)} |->
     IF x = CanonicalKey(k) THEN <<v>> ELSE h[x]]

HeaderAdd(h, k, v) ==
  [x \in DOMAIN h \cup {CanonicalKey(k)} |->
     IF x = CanonicalKey(k)
     THEN (IF x \in DOMAIN h THEN h[x] ELSE <<>>) \o <<v>>
     ELSE h[x]]

GetHeader ==
  [k \in {"app_lang", "lang", "app_id", "time_zone", "Content-Type"} |->
     IF k = "Content-Type" THEN <<"application/json">> ELSE Empty]

RECURSIVE SetAll(_, _, _)
SetAll(h, headers, keys) ==
  IF keys = {} THEN h
  ELSE LET k == CHOOSE x \in keys : TRUE
       IN SetAll(HeaderSet(h, k, headers[k]), headers, keys \ {k})

\* the bytes are never written to the hash
calculateSignatureRequestBodyHash_NoWrite(dataBytes) ==
  <<"sha256[", "]">>

\* hex(SHA256(dataBytes)): an injective constructor over the bytes
calculateSignatureRequestBodyHash(dataBytes) ==
  <<"sha256[">> \o dataBytes \o <<"]">>

\* hex(HMAC_SHA256(key, payload)): an injective constructor over key and payload
HmacSha256Hex(key, payload) ==
  <<"hmac-sha256[">> \o key \o <<"|">> \o payload \o <<"]">>

\* the empty secret is signed with like any other
calculateSignature_NoGuard(secret, method, path, timestamp, bodyHash) ==
  HmacSha256Hex(secret, Join(<<method, path, timestamp, bodyHash>>, <<"\n">>))

calculateSignature(secret, method, path, timestamp, bodyHash) ==
  IF secret = Empty THEN Empty
  ELSE HmacSha256Hex(secret, Join(<<method, path, timestamp, bodyHash>>, <<"\n">>))

\* what the clock and the random sources may give one call
Timestamps == {<<"1700000000">>, <<"1700000001">>}

Nonces == {<<"9f3c">>}

Uuids == {<<"6ba7b810", "-", "11d1">>}

NoRequest == [method |-> Empty, url |-> Empty, header |-> <<>>, body |-> Empty]

\* the error of json.Marshal is dropped and the request sent all the same
httpPostSend_IgnoresMarshalErr(url, data, headers, now, nonce) ==
  LET m == Marshal(data)
  IN IF NewRequestErr(url)
     THEN [sent |-> FALSE, request |-> NoRequest, result |-> Nil,
           message |-> <<"Failed to create HTTP request: invalid parameters or request body.">>]
     ELSE LET method == <<"POST">>
              h0 == SetAll(<<>>, headers, DOMAIN headers)
              timestamp == now
              bodyHash == calculateSignatureRequestBodyHash(m.bytes)
              signature == calculateSignature(AppSecret, method, RequestURI(url),
                                              timestamp, bodyHash)
              h1 == HeaderAdd(h0, RequestSignatureHeaderAccessKey, AppID)
              h2 == HeaderAdd(h1, RequestSignatureHeaderTimestamp, timestamp)
              h3 == HeaderAdd(h2, RequestSignatureHeaderNonce, nonce)
              h4 == HeaderAdd(h3, RequestSignatureHeaderSignature, signature)
          IN [sent |-> TRUE,
              request |-> [method |-> method, url |-> url, header |-> h4,
                           body |-> m.bytes],
              result |-> Nil, message |-> Empty]

\* httpPost up to client.Do(request): either an early return or the request sent
httpPostSend(url, data, headers, now, nonce) ==
  LET m == Marshal(data)
  IN IF m.err
     THEN [sent |-> FALSE, request |-> NoRequest, result |-> Nil,
           message |-> <<"Data format error (invalid JSON data). Please try again later.">>]
     ELSE IF NewRequestErr(url)
     THEN [sent |-> FALSE, request |-> NoRequest, result |-> Nil,
           message |-> <<"Failed to create HTTP request: invalid parameters or request body.">>]
     ELSE LET method == <<"POST">>
              h0 == SetAll(<<>>, headers, DOMAIN headers)
              timestamp == now
              bodyHash == calculateSignatureRequestBodyHash(m.bytes)
              signature == calculateSignature(AppSecret, method, RequestURI(url),
                                              timestamp, bodyHash)
              h1 == HeaderAdd(h0, RequestSignatureHeaderAccessKey, AppID)
              h2 == HeaderAdd(h1, RequestSignatureHeaderTimestamp, timestamp)
              h3 == HeaderAdd(h2, RequestSignatureHeaderNonce, nonce)
              h4 == HeaderAdd(h3, RequestSignatureHeaderSignature, signature)
          IN [sent |-> TRUE,
              request |-> [method |-> method, url |-> url, header |-> h4,
                           body |-> m.bytes],
              result |-> Nil, message |-> Empty]

\* ----------------------------------------------------------- the responses
\* a field of the JSON body: its value, or bad when it has the wrong JSON type
\* for the Go field (v then holds the Go zero value, which Unmarshal leaves)
Field(v) == [bad |-> FALSE, v |-> v]

BadField(zero) == [bad |-> TRUE, v |-> zero]

InvalidJSON ==
  [syntax |-> FALSE, code |-> Field(0), message |-> Field(Empty),
   msgDetails |-> Field(Empty), result |-> Field("zero")]

\* an absent field and a field holding the zero value decode alike
Bodies ==
  {InvalidJSON} \cup
  [syntax : {TRUE},
   code : {Field(0), Field(7), BadField(0)},
   message : {Field(Empty), Field(<<"m">>), BadField(Empty)},
   msgDetails : {Field(Empty), Field(<<"d">>), BadField(Empty)},
   result : {Field("zero"), Field("r"), BadField("zero")}]

StatusOK == 200

Statuses == {200, 503}

NoBody == InvalidJSON

\* the outcomes of client.Do followed by io.ReadAll
Exchanges ==
  {[kind |-> "transport", err |-> <<"dial tcp: timeout">>, status |-> 0,
    readErr |-> FALSE, body |-> NoBody]}
  \cup [kind : {"response"}, err : {<<"unexpected EOF">>}, status : Statuses,
        readErr : {TRUE}, body : {NoBody}]
  \cup [kind : {"response"}, err : {Empty}, status : Statuses,
        readErr : {FALSE}, body : Bodies]

\* a result of type `any` accepts every JSON value
ExchangesFor(T) ==
  {x \in Exchanges : T = "any" => ~x.body.result.bad}

\* json.Unmarshal(body, &RespBody[T]{}): a syntax error leaves the struct zero;
\* a field of the wrong type is skipped, the rest is decoded, an error returned
Unmarshal(body) ==
  IF ~body.syntax
  THEN [err |-> TRUE,
        v |-> [Code |-> 0, Message |-> Empty, MsgDetails |-> Empty, Result |-> "zero"]]
  ELSE [err |-> body.code.bad \/ body.message.bad \/ body.msgDetails.bad
                  \/ body.result.bad,
        v |-> [Code |-> body.code.v, Message |-> body.message.v,
               MsgDetails |-> body.msgDetails.v, Result |-> body.result.v]]

\* strconv / %d formatting of the status code
Itoa(n) == ToString(n)

GenericInvalidData ==
  <<"The received data is not in a valid JSON format. Please try again later.">>

\* the code-#-0 branch returns the decoded result along with the message
httpPostDecode_KeepsResult(body) ==
  LET d == Unmarshal(body)
      result == d.v
  IN IF d.err
     THEN IF result.Message # Empty
          THEN [result |-> Nil, message |-> result.Message]
          ELSE [result |-> Nil, message |-> GenericInvalidData]
     ELSE IF result.Code = 0
     THEN [result |-> Ptr(result.Result), message |-> Empty]
     ELSE IF result.MsgDetails # Empty
     THEN [result |-> Ptr(result.Result), message |-> result.MsgDetails]
     ELSE [result |-> Ptr(result.Result), message |-> result.Message]

\* a non-empty msgDetails is taken for a failure before Code is looked at
httpPostDecode_DetailsFirst(body) ==
  LET d == Unmarshal(body)
      result == d.v
  IN IF d.err
     THEN IF result.Message # Empty
          THEN [result |-> Nil, message |-> result.Message]
          ELSE [result |-> Nil, message |-> GenericInvalidData]
     ELSE IF result.MsgDetails # Empty
     THEN [result |-> Nil, message |-> result.MsgDetails]
     ELSE IF result.Code = 0
     THEN [result |-> Ptr(result.Result), message |-> Empty]
     ELSE [result |-> Nil, message |-> result.Message]

\* the short message is preferred over the detailed one
httpPostDecode_MessageFirst(body) ==
  LET d == Unmarshal(body)
      result == d.v
  IN IF d.err
     THEN IF result.Message # Empty
          THEN [result |-> Nil, message |-> result.Message]
          ELSE [result |-> Nil, message |-> GenericInvalidData]
     ELSE IF result.Code = 0
     THEN [result |-> Ptr(result.Result), message |-> Empty]
     ELSE IF result.Message # Empty
     THEN [result |-> Nil, message |-> result.Message]
     ELSE [result |-> Nil, message |-> result.MsgDetails]

\* the error of json.Unmarshal is dropped
httpPostDecode_IgnoresErr(body) ==
  LET d == Unmarshal(body)
      result == d.v
  IN IF result.Code = 0
     THEN [result |-> Ptr(result.Result), message |-> Empty]
     ELSE IF result.MsgDetails # Empty
     THEN [result |-> Nil, message |-> result.MsgDetails]
     ELSE [result |-> Nil, message |-> result.Message]

\* httpPost from json.Unmarshal on: the body of a 200 response classified
httpPostDecode(body) ==
  LET d == Unmarshal(body)
      result == d.v
  IN IF d.err
     THEN IF result.Message # Empty
          THEN [result |-> Nil, message |-> result.Message]
          ELSE [result |-> Nil, message |-> GenericInvalidData]
     ELSE IF result.Code = 0
     THEN [result |-> Ptr(result.Result), message |-> Empty]
     ELSE IF result.MsgDetails # Empty
     THEN [result |-> Nil, message |-> result.MsgDetails]
     ELSE [result |-> Nil, message |-> result.Message]

\* the status is looked at only when the body is no success envelope
httpPostRecv_DecodeFirst(url, x) ==
  IF x.kind = "transport"
  THEN [result |-> Nil,
        message |-> <<"An error occurred while requesting the cloud service. ">> \o x.err]
  ELSE IF x.readErr
  THEN [result |-> Nil, message |-> <<"Failed to read response: ">> \o x.err]
  ELSE IF httpPostDecode(x.body).message = Empty
  THEN httpPostDecode(x.body)
  ELSE IF x.status # StatusOK
  THEN [result |-> Nil,
        message |-> <<"API call failed. status code: ", Itoa(x.status)>>]
  ELSE httpPostDecode(x.body)

\* httpPost from the return of client.Do on
httpPostRecv(url, x) ==
  IF x.kind = "transport"
  THEN [result |-> Nil,
        message |-> <<"An error occurred while requesting the cloud service. ">> \o x.err]
  ELSE IF x.readErr
  THEN [result |-> Nil, message |-> <<"Failed to read response: ">> \o x.err]
  ELSE IF x.status # StatusOK
  THEN [result |-> Nil,
        message |-> <<"API call failed. status code: ", Itoa(x.status)>>]
  ELSE httpPostDecode(x.body)

\* Post: the (response, message) pair of httpPost, the response dropped on a message
Post(r) ==
  IF r.message # Empty
  THEN [result |-> Nil, message |-> r.message]
  ELSE [result |-> r.result, message |-> Empty]

\* CallService up to Post: the URL and the request envelope
CallService(serviceName, data, uuid) ==
  [requestURL |-> API_BASE_URL \o <<"/call">>,
   reqData |-> [Token |-> API_KEY, Version |-> Version, Fn |-> serviceName,
                Params |-> data, DeviceID |-> DeviceID,
                RequestID |-> RemoveAll(uuid, "-")]]

\* ------------------------------------------------------------ API wrappers
\* What a wrapper returns: a string, (bool, string), (*T, string) or
\* ([]string, string); the components a signature lacks keep their defaults.
RetString(s) == [kind |-> "string", b |-> FALSE, p |-> Nil, text |-> s]

RetBool(b, s) == [kind |-> "bool", b |-> b, p |-> Nil, text |-> s]

RetPtr(p, s) == [kind |-> "ptr", b |-> FALSE, p |-> p, text |-> s]

RetList(p, s) == [kind |-> "list", b |-> FALSE, p |-> p, text |-> s]

NoData == [kind |-> "nil"]

\* a wrapper up to its CallService call: it has returned, or it calls
Return(ret) ==
  [call |-> FALSE, ret |-> ret, service |-> Empty, data |-> NoData, T |-> "none"]

Call(service, data, T) ==
  [call |-> TRUE, ret |-> RetString(Empty), service |-> service, data |-> data, T |-> T]

\* *result for a decoded string: the zero value is ""
Deref(p) == IF p.val = "zero" THEN Empty ELSE <<p.val>>

Login(username, password, region) ==
  IF TrimSpace(username) = Empty THEN Return(RetPtr(Nil, <<"Username cannot be empty">>))
  ELSE IF TrimSpace(password) = Empty THEN Return(RetPtr(Nil, <<"Password cannot be empty">>))
  ELSE IF TrimSpace(region) = Empty THEN Return(RetPtr(Nil, <<"Region cannot be empty">>))
  ELSE Call(<<"Login">>,
            [kind |-> "struct", username |-> TrimSpace(username),
             password |-> TrimSpace(password),
             region |-> ToUpper(TrimSpace(region))],
            "LoginResult")

LoginReturn(result, message) == RetPtr(result, message)

DeviceControl(devices, slots) ==
  IF Len(devices) = 0 THEN Return(RetString(<<"Device list cannot be empty">>))
  ELSE IF Cardinality(DOMAIN slots) = 0
  THEN Return(RetString(<<"Control parameters cannot be empty">>))
  ELSE Call(<<"DeviceControl">>,
            [kind |-> "map", devices |-> devices, slots |-> <<slots>>], "string")

DeviceControlReturn(result, message) ==
  IF message # Empty THEN RetString(message)
  ELSE RetString(<<"Device control success">>)

OrEmpty(list) == IF list.isNil THEN Slice(<<>>) ELSE list

DeviceQuery(positions, types) ==
  Call(<<"DeviceQuery">>,
       [kind |-> "map", positions |-> OrEmpty(positions),
        device_types |-> OrEmpty(types)], "string")

DeviceQueryReturn(result, message) ==
  IF message # Empty THEN RetString(message)
  ELSE IF result.isNil THEN RetString(<<"No device data available">>)
  ELSE RetString(Deref(result))

DeviceStatusQuery(positions, types) ==
  Call(<<"DeviceStatusQuery">>,
       [kind |-> "map", positions |-> OrEmpty(positions),
        device_types |-> OrEmpty(types)], "string")

DeviceStatusQueryReturn(result, message) ==
  IF message # Empty THEN RetString(message)
  ELSE IF result.isNil THEN RetString(<<"No device status data available">>)
  ELSE RetString(Deref(result))

GetScenes(positions) ==
  Call(<<"GetScenes">>, [kind |-> "map", positions |-> OrEmpty(positions)], "string")

GetScenesReturn(result, message) ==
  IF message # Empty THEN RetString(message)
  ELSE IF result.isNil THEN RetString(<<"No scenes available">>)
  ELSE RetString(Deref(result))

RunScenes(scenes) ==
  IF Len(scenes) = 0 THEN Return(RetString(<<"Scene list cannot be empty">>))
  ELSE Call(<<"RunScenes">>, [kind |-> "map", scenes |-> scenes], "any")

RunScenesReturn(result, message) ==
  IF message # Empty THEN RetString(message)
  ELSE RetString(<<"Scene executed successfully">>)

GetHomes == Call(<<"GetHomes">>, NoData, "[]string")

\* *result of a decoded []string: the zero value is the nil slice
GetHomesReturn(result, err) ==
  IF err # Empty THEN RetList(Nil, err)
  ELSE IF result.isNil THEN RetList(Nil, <<"No homes available">>)
  ELSE RetList(IF result.val = "zero" THEN Nil ELSE Ptr(result.val), Empty)

\* the home name is compared without strings.TrimSpace
SwitchHome_NoTrim(homeName) ==
  IF homeName = Empty
  THEN Return(RetBool(FALSE, <<"Home name cannot be empty">>))
  ELSE Call(<<"SwitchHome">>, [kind |-> "struct", home_name |-> TrimSpace(homeName)],
            "string")

SwitchHome(homeName) ==
  IF TrimSpace(homeName) = Empty
  THEN Return(RetBool(FALSE, <<"Home name cannot be empty">>))
  ELSE Call(<<"SwitchHome">>, [kind |-> "struct", home_name |-> TrimSpace(homeName)],
            "string")

SwitchHomeReturn(result, message) ==
  IF message # Empty THEN RetBool(FALSE, message)
  ELSE IF result.isNil
  THEN RetBool(FALSE, <<"Home switch failed: no response from server">>)
  ELSE RetBool(TRUE, Empty)

AutomationConfig(scheduledTime, endpointIDs, controlParams, taskName, executionOnce) ==
  IF TrimSpace(scheduledTime) = Empty
  THEN Return(RetString(<<"Scheduled time cannot be empty">>))
  ELSE IF Len(endpointIDs) = 0
  THEN Return(RetString(<<"Device list cannot be empty">>))
  ELSE IF Cardinality(DOMAIN controlParams) = 0
  THEN Return(RetString(<<"Control parameters cannot be empty">>))
  ELSE IF TrimSpace(taskName) = Empty
  THEN Return(RetString(<<"Task name cannot be empty">>))
  ELSE Call(<<"AutomationConfig">>,
            [kind |-> "map", scheduled_time |-> TrimSpace(scheduledTime),
             devices |-> endpointIDs, slots |-> <<controlParams>>,
             task_name |-> TrimSpace(taskName), execution_once |-> executionOnce],
            "string")

AutomationConfigReturn(result, message) ==
  IF message # Empty THEN RetString(message)
  ELSE RetString(<<"Automation configuration successful">>)

DeviceLogQuery(endpointIDs, startDatetime, endDatetime, attributes) ==
  IF Len(endpointIDs) = 0 THEN Return(RetString(<<"Device list cannot be empty">>))
  ELSE LET span1 == IF TrimSpace(startDatetime) # Empty
                    THEN <<TrimSpace(startDatetime)>> ELSE <<>>
           timeSpan == IF TrimSpace(endDatetime) # Empty
                       THEN span1 \o <<TrimSpace(endDatetime)>> ELSE span1
       IN Call(<<"DeviceLogQuery">>,
               [kind |-> "map", devices |-> endpointIDs, time_span |-> timeSpan,
                attributes |-> IF Len(attributes.elems) > 0 THEN attributes ELSE NilSlice],
               "string")

DeviceLogQueryReturn(result, message) ==
  IF message # Empty THEN RetString(message)
  ELSE IF result.isNil THEN RetString(<<"No device log data available">>)
  ELSE RetString(Deref(result))

\* ------------------------------------------------------------- invocations
\* the entry points and the arguments a caller may pass them
Invocations ==
  [op : {"CallService"},
   args : [serviceName : {<<"Echo">>}, data : {NoData, [kind |-> "chan"]}]]
  \cup [op : {"Login"},
        args : [username : StrInputs, password : StrInputs, region : StrInputs]]
  \cup [op : {"DeviceControl"}, args : [devices : IntLists, slots : SlotMaps]]
  \cup [op : {"DeviceQuery"}, args : [positions : StrLists, types : StrLists]]
  \cup [op : {"DeviceStatusQuery"}, args : [positions : StrLists, types : StrLists]]
  \cup [op : {"GetScenes"}, args : [positions : StrLists]]
  \cup [op : {"RunScenes"}, args : [scenes : IntLists]]
  \cup [op : {"GetHomes"}, args : {<<>>}]
  \cup [op : {"SwitchHome"}, args : [homeName : StrInputs]]
  \cup [op : {"AutomationConfig"},
        args : [scheduledTime : StrInputs, endpointIDs : IntLists,
                controlParams : SlotMaps, taskName : StrInputs,
                executionOnce : BOOLEAN]]
  \cup [op : {"DeviceLogQuery"},
        args : [endpointIDs : IntLists, startDatetime : StrInputs,
                endDatetime : StrInputs, attributes : StrLists]]

\* the entry point run up to its CallService call
Enter(inv) ==
  LET a == inv.args
  IN CASE inv.op = "CallService" -> Call(a.serviceName, a.data, "any")
       [] inv.op = "Login" -> Login(a.username, a.password, a.region)
       [] inv.op = "DeviceControl" -> DeviceControl(a.devices, a.slots)
       [] inv.op = "DeviceQuery" -> DeviceQuery(a.positions, a.types)
       [] inv.op = "DeviceStatusQuery" -> DeviceStatusQuery(a.positions, a.types)
       [] inv.op = "GetScenes" -> GetScenes(a.positions)
       [] inv.op = "RunScenes" -> RunScenes(a.scenes)
       [] inv.op = "GetHomes" -> GetHomes
       [] inv.op = "SwitchHome" -> SwitchHome(a.homeName)
       [] inv.op = "AutomationConfig" ->
            AutomationConfig(a.scheduledTime, a.endpointIDs, a.controlParams,
                             a.taskName, a.executionOnce)
       [] inv.op = "DeviceLogQuery" ->
            DeviceLogQuery(a.endpointIDs, a.startDatetime, a.endDatetime, a.attributes)

\* the entry point from the return of its CallService call on
Leave(inv, cs) ==
  CASE inv.op = "CallService" -> RetPtr(cs.result, cs.message)
    [] inv.op = "Login" -> LoginReturn(cs.result, cs.message)
    [] inv.op = "DeviceControl" -> DeviceControlReturn(cs.result, cs.message)
    [] inv.op = "DeviceQuery" -> DeviceQueryReturn(cs.result, cs.message)
    [] inv.op = "DeviceStatusQuery" -> DeviceStatusQueryReturn(cs.result, cs.message)
    [] inv.op = "GetScenes" -> GetScenesReturn(cs.result, cs.message)
    [] inv.op = "RunScenes" -> RunScenesReturn(cs.result, cs.message)
    [] inv.op = "GetHomes" -> GetHomesReturn(cs.result, cs.message)
    [] inv.op = "SwitchHome" -> SwitchHomeReturn(cs.result, cs.message)
    [] inv.op = "AutomationConfig" -> AutomationConfigReturn(cs.result, cs.message)
    [] inv.op = "DeviceLogQuery" -> DeviceLogQueryReturn(cs.result, cs.message)

\* ----------------------------------------------------------------- startup
\* hex digests as injective constructors
sha1Hex(str) == <<"sha1[">> \o str \o <<"]">>

md5Hash(str) == <<"md5[">> \o str \o <<"]">>

\* the hardware address of the first usable interface, "" when there is none
MacAddrs == {Empty, <<"02:42:ac:11:00:02">>}

genDeviceID(mac, uuid) ==
  LET macAddr == IF mac = Empty THEN uuid ELSE mac
      prefix == IF mac = Empty THEN <<"mcp1.">> ELSE <<"mcp0.">>
      baseInfo == Join(<<macAddr, <<"host">>, <<"linux-amd64">>>>, <<"-">>)
  IN prefix \o sha1Hex(baseInfo)

genAppID == <<"mcp-">> \o md5Hash(<<"mcp-">> \o DeviceID)

\* the outcomes of the GET of /secret: the JSON object read, when one is
SecretReplies ==
  {[kind |-> "transport", status |-> 0, readErr |-> FALSE, syntax |-> FALSE, obj |-> <<>>]}
  \cup [kind : {"response"}, status : Statuses, readErr : {TRUE}, syntax : {FALSE},
        obj : {<<>>}]
  \cup [kind : {"response"}, status : Statuses, readErr : {FALSE}, syntax : {FALSE},
        obj : {<<>>}]
  \cup [kind : {"response"}, status : Statuses, readErr : {FALSE}, syntax : {TRUE},
        obj : {<<>>, [k \in {"secret_key"} |-> <<"s3cr3t">>],
               [k \in {"secret_key"} |-> Empty], [k \in {"other"} |-> <<"x">>]}]

\* url.Values.Encode: key=value pairs joined by "&"
RECURSIVE EncodeQuery(_, _)
EncodeQuery(queryParams, keys) ==
  IF keys = {} THEN <<>>
  ELSE LET k == CHOOSE x \in keys : TRUE
           rest == EncodeQuery(queryParams, keys \ {k})
       IN <<k, "=">> \o queryParams[k] \o (IF rest = <<>> THEN <<>> ELSE <<"&">> \o rest)

\* httpGet up to http.Get(finalURL): the request sent (none when url.Parse fails);
\* http.Get adds no header of this program
httpGetRequest(baseURL, queryParams) ==
  IF NewRequestErr(baseURL) THEN NoRequest
  ELSE [method |-> <<"GET">>,
        url |-> IF DOMAIN queryParams # {}
                THEN baseURL \o <<"?">> \o EncodeQuery(queryParams, DOMAIN queryParams)
                ELSE baseURL,
        header |-> <<>>, body |-> Empty]

\* a non-200 reply is decoded all the same
httpGet_NoStatusCheck(baseURL, queryParams, g) ==
  IF NewRequestErr(baseURL) THEN [result |-> Nil, err |-> TRUE]
  ELSE IF g.kind = "transport" THEN [result |-> Nil, err |-> TRUE]
  ELSE IF g.readErr THEN [result |-> Nil, err |-> TRUE]
  ELSE IF ~g.syntax THEN [result |-> Nil, err |-> TRUE]
  ELSE [result |-> Ptr(g.obj), err |-> FALSE]

\* httpGet[map[string]string]: (*T, error); the status is checked before the read
httpGet(baseURL, queryParams, g) ==
  IF NewRequestErr(baseURL) THEN [result |-> Nil, err |-> TRUE]
  ELSE IF g.kind = "transport" THEN [result |-> Nil, err |-> TRUE]
  ELSE IF g.status # StatusOK THEN [result |-> Nil, err |-> TRUE]
  ELSE IF g.readErr THEN [result |-> Nil, err |-> TRUE]
  ELSE IF ~g.syntax THEN [result |-> Nil, err |-> TRUE]
  ELSE [result |-> Ptr(g.obj), err |-> FALSE]

genSecret(g) ==
  LET url == API_BASE_URL \o <<"/secret">>
      r == httpGet(url, [k \in {"key"} |-> AppID], g)
  IN IF r.err THEN Empty
     ELSE IF r.result.isNil THEN Empty
     ELSE IF "secret_key" \in DOMAIN r.result.val THEN r.result.val["secret_key"]
     ELSE Empty

\* the line genSecret logs on its way out (none when it returns the key)
genSecretLog(g) ==
  LET url == API_BASE_URL \o <<"/secret">>
      r == httpGet(url, [k \in {"key"} |-> AppID], g)
  IN IF r.err THEN <<"Failed to generate secret">>
     ELSE IF r.result.isNil THEN <<"No secret returned from server">>
     ELSE IF "secret_key" \in DOMAIN r.result.val THEN Empty
     ELSE <<"Secret key not found in response">>

\* no reply of the /secret endpoint at hand
NoReply == [kind |-> "none", status |-> 0, readErr |-> FALSE, syntax |-> FALSE, obj |-> <<>>]

\* genSecret has not run
NoFetch == [reply |-> NoReply, log |-> Empty]

\* ------------------------------------------------------------ the machine
MainThread == "main"

Handlers == {"g1"}

Goroutines == {MainThread} \cup Handlers

NoExchange ==
  [kind |-> "none", err |-> Empty, status |-> 0, readErr |-> FALSE, body |-> NoBody]

NoCS == [result |-> Nil, message |-> Empty]

NoInvocation == [op |-> "none", args |-> <<>>]

\* a handler goroutine that serves no HTTP request
IdleRequest == [pc |-> "idle"]

\* a goroutine that is in no call
IdleCall == [pc |-> "idle"]

\* a call as it starts: nothing sent, nothing received
NewCall(inv) ==
  [pc |-> "done", inv |-> inv, T |-> "none", called |-> FALSE, posts |-> 0,
   request |-> NoRequest, exchange |-> NoExchange, hp |-> NoCS, cs |-> NoCS,
   ret |-> RetString(Empty)]

\* an entry point run until it returns or blocks in client.Do
Begin(inv, now, nonce, uuid) ==
  LET w == Enter(inv)
  IN IF ~w.call
     THEN [NewCall(inv) EXCEPT !.ret = w.ret]
     ELSE LET c == CallService(w.service, w.data, uuid)
              s == httpPostSend(c.requestURL, c.reqData, GetHeader, now, nonce)
          IN IF ~s.sent
             THEN LET hp == [result |-> s.result, message |-> s.message]
                      cs == Post(hp)
                  IN [NewCall(inv) EXCEPT !.T = w.T, !.called = TRUE, !.hp = hp,
                                          !.cs = cs, !.ret = Leave(inv, cs)]
             ELSE [NewCall(inv) EXCEPT !.pc = "inflight", !.T = w.T, !.called = TRUE,
                                       !.posts = 1, !.request = s.request]

\* the blocked call run from the return of client.Do to the entry point's return
End(c, x) ==
  LET hp == httpPostRecv(c.request.url, x)
      cs == Post(hp)
  IN [c EXCEPT !.pc = "done", !.exchange = x, !.hp = hp, !.cs = cs,
               !.ret = Leave(c.inv, cs)]

Init ==
  /\ phase = "initDeviceID"
  /\ DeviceID = Empty
  /\ AppID = Empty
  /\ AppSecret = Empty
  /\ secretReq = NoRequest
  /\ secretFetch = NoFetch
  /\ inbound = [t \in Handlers |-> IdleRequest]
  /\ calls = [t \in Goroutines |-> IdleCall]

\* var DeviceID = genDeviceID()
InitDeviceID ==
  /\ phase = "initDeviceID"
  /\ \E mac \in MacAddrs, uuid \in Uuids : DeviceID' = genDeviceID(mac, uuid)
  /\ phase' = "initAppID"
  /\ UNCHANGED <<AppID, AppSecret, secretReq, secretFetch, inbound, calls>>

\* var AppID = genAppID()
InitAppID ==
  /\ phase = "initAppID"
  /\ AppID' = genAppID
  /\ phase' = "initSecret"
  /\ UNCHANGED <<DeviceID, AppSecret, secretReq, secretFetch, inbound, calls>>

\* var AppSecret = genSecret()
InitAppSecret ==
  /\ phase = "initSecret"
  /\ \E g \in SecretReplies :
       /\ AppSecret' = genSecret(g)
       /\ secretFetch' = [reply |-> g, log |-> genSecretLog(g)]
  /\ secretReq' = httpGetRequest(API_BASE_URL \o <<"/secret">>, [k \in {"key"} |-> AppID])
  /\ phase' = "main"
  /\ UNCHANGED <<DeviceID, AppID, inbound, calls>>

\* registerTools: main calls SwitchHome once before the tools are added
RegisterTools ==
  /\ phase = "main"
  /\ \E now \in Timestamps, nonce \in Nonces, uuid \in Uuids :
       calls' = [calls EXCEPT ![MainThread] =
                   Begin([op |-> "SwitchHome", args |-> [homeName |-> <<"home">>]],
                         now, nonce, uuid)]
  /\ phase' = "registering"
  /\ secretFetch' = [secretFetch EXCEPT !.reply = NoReply]
  /\ UNCHANGED <<DeviceID, AppID, AppSecret, secretReq, inbound>>

\* main goes on to AddTool and ListenAndServe once its SwitchHome has returned
Serve ==
  /\ phase = "registering"
  /\ calls[MainThread].pc = "done"
  /\ calls' = [calls EXCEPT ![MainThread] = IdleCall]
  /\ phase' = "serving"
  /\ UNCHANGED <<DeviceID, AppID, AppSecret, secretReq, secretFetch, inbound>>

\* an entry point is called
Invoke(t) ==
  /\ phase = "serving"
  /\ calls[t].pc = "idle"
  /\ \E inv \in Invocations, now \in Timestamps, nonce \in Nonces, uuid \in Uuids :
       calls' = [calls EXCEPT ![t] = Begin(inv, now, nonce, uuid)]
  /\ UNCHANGED <<phase, DeviceID, AppID, AppSecret, secretReq, secretFetch, inbound>>

\* client.Do returns and the call runs to its return
Respond(t) ==
  /\ calls[t].pc = "inflight"
  /\ \E x \in ExchangesFor(calls[t].T) :
       calls' = [calls EXCEPT ![t] = End(calls[t], x)]
  /\ UNCHANGED <<phase, DeviceID, AppID, AppSecret, secretReq, secretFetch, inbound>>

\* the caller has taken the return value
Finish(t) ==
  /\ t \in Handlers
  /\ calls[t].pc = "done"
  /\ calls' = [calls EXCEPT ![t] = IdleCall]
  /\ UNCHANGED <<phase, DeviceID, AppID, AppSecret, secretReq, secretFetch, inbound>>

Next ==
  \/ InitDeviceID
  \/ InitAppID
  \/ InitAppSecret
  \/ RegisterTools
  \/ Serve
  \/ \E t \in Handlers : Invoke(t)
  \/ \E t \in Goroutines : Respond(t)
  \/ \E t \in Handlers : Finish(t)

Spec == Init /\ [][Next]_vars

\* ------------------------------------------------- concurrent tool calls
\* The SSE server runs each tool call on its own goroutine: two handlers that
\* may be in CallService at once, over a small set of calls and replies.
ConcHandlers == {"g1", "g2"}

ConcGoroutines == {MainThread} \cup ConcHandlers

ConcInvocations ==
  {[op |-> "RunScenes", args |-> [scenes |-> <<1>>]],
   [op |-> "GetScenes", args |-> [positions |-> Slice(<<>>)]],
   [op |-> "SwitchHome", args |-> [homeName |-> <<"a">>]]}

ConcBodies ==
  {InvalidJSON} \cup
  [syntax : {TRUE}, code : {Field(0), Field(7)}, message : {Field(Empty), Field(<<"m">>)},
   msgDetails : {Field(Empty)}, result : {Field("r")}]

ConcExchanges ==
  {x \in Exchanges :
     \/ x.kind = "transport"
     \/ x.status = 503 /\ x.body = InvalidJSON /\ ~x.readErr
     \/ x.status = 200 /\ ~x.readErr /\ x.body \in ConcBodies}

InitConc ==
  /\ phase = "initDeviceID"
  /\ DeviceID = Empty
  /\ AppID = Empty
  /\ AppSecret = Empty
  /\ secretReq = NoRequest
  /\ secretFetch = NoFetch
  /\ inbound = [t \in ConcHandlers |-> IdleRequest]
  /\ calls = [t \in ConcGoroutines |-> IdleCall]

\* a tool call starts on a handler goroutine
ConcInvoke(t) ==
  /\ phase = "serving"
  /\ calls[t].pc = "idle"
  /\ \E inv \in ConcInvocations, now \in Timestamps, nonce \in Nonces, uuid \in Uuids :
       calls' = [calls EXCEPT ![t] = Begin(inv, now, nonce, uuid)]
  /\ UNCHANGED <<phase, DeviceID, AppID, AppSecret, secretReq, secretFetch, inbound>>

\* a failed exchange makes the call fetch the secret again
ConcRespond_RefreshesSecret(t) ==
  /\ calls[t].pc = "inflight"
  /\ \E x \in ConcExchanges :
       /\ calls' = [calls EXCEPT ![t] = End(calls[t], x)]
       /\ AppSecret' = IF x.kind = "transport" THEN Empty ELSE AppSecret
  /\ UNCHANGED <<phase, DeviceID, AppID, secretReq, secretFetch, inbound>>

\* client.Do returns on some goroutine, whatever the others are doing
ConcRespond(t) ==
  /\ calls[t].pc = "inflight"
  /\ \E x \in ConcExchanges :
       calls' = [calls EXCEPT ![t] = End(calls[t], x)]
  /\ UNCHANGED <<phase, DeviceID, AppID, AppSecret, secretReq, secretFetch, inbound>>

\* the handler has taken the return value
ConcFinish(t) ==
  /\ calls[t].pc = "done"
  /\ calls' = [calls EXCEPT ![t] = IdleCall]
  /\ UNCHANGED <<phase, DeviceID, AppID, AppSecret, secretReq, secretFetch, inbound>>

NextConc ==
  \/ InitDeviceID
  \/ InitAppID
  \/ InitAppSecret
  \/ RegisterTools
  \/ Serve
  \/ \E t \in ConcHandlers : ConcInvoke(t)
  \/ \E t \in ConcGoroutines : ConcRespond(t)
  \/ \E t \in ConcHandlers : ConcFinish(t)

SpecConc == InitConc /\ [][NextConc]_vars

\* main is one goroutine that keeps running, and client.Do returns within
\* DefaultAPITimeout whatever the remote service does
SpecStartup ==
  /\ SpecConc
  /\ WF_vars(RegisterTools)
  /\ WF_vars(ConcRespond(MainThread))
  /\ WF_vars(Serve)

\* ------------------------------------------------------- the tool handlers
\* simpleResult: one text content item per argument
simpleResult(args) ==
  [Content |-> [i \in 1..Len(args) |-> [type |-> "text", Text |-> args[i]]]]

\* what a tool handler returns: (*mcp.CallToolResult, any, error)
HandlerReturn(result) == [result |-> result, structured |-> Nil, err |-> Nil]

\* strings.ReplaceAll(s, "scene", "device button") over the texts GetScenes returns
ReplaceAllScene(s) ==
  [i \in 1..Len(s) |->
     CASE s[i] = "scene" -> "device button"
       [] s[i] = "No scenes available" -> "No device buttons available"
       [] OTHER -> s[i]]

\* the homes of a decoded []string: the nil slice has none
HomesOf(p) == IF p.isNil THEN <<>> ELSE <<<<p.val>>>>

HandleListHome(args) == [op |-> "GetHomes", args |-> <<>>]

\* the empty list is passed to simpleResult like any other
HandleListHomeReturn_NoEmptyCheck(args, ret) ==
  LET homes == HomesOf(ret.p)
      message == ret.text
  IN IF message # Empty THEN HandlerReturn(simpleResult(<<message>>))
     ELSE HandlerReturn(simpleResult(homes))

HandleListHomeReturn(args, ret) ==
  LET homes == HomesOf(ret.p)
      message == ret.text
  IN IF message # Empty THEN HandlerReturn(simpleResult(<<message>>))
     ELSE IF Len(homes) = 0 THEN HandlerReturn(simpleResult(<<<<"No homes found.">>>>))
     ELSE HandlerReturn(simpleResult(homes))

HandleSwitchHome(args) == [op |-> "SwitchHome", args |-> [homeName |-> args.Name]]

HandleSwitchHomeReturn(args, ret) ==
  LET success == ret.b
      message == IF ret.text = Empty
                 THEN <<"Home switch failed due to an unknown error.">>
                 ELSE ret.text
  IN IF ~success THEN HandlerReturn(simpleResult(<<message>>))
     ELSE HandlerReturn(simpleResult(
            <<<<"Successfully switched to home \"">> \o args.Name \o <<"\"">>>>))

HandleListScenesHandler(args) ==
  [op |-> "GetScenes", args |-> [positions |-> Slice(<<>>)]]

HandleListScenesHandlerReturn(args, ret) ==
  LET result == ReplaceAllScene(ret.text)
  IN HandlerReturn(simpleResult(<<result>>))

HandleRunScenesHandler(args) ==
  [op |-> "RunScenes", args |-> [scenes |-> <<args.Button>>]]

HandleRunScenesHandlerReturn(args, ret) ==
  LET result == ret.text
  IN HandlerReturn(simpleResult(<<result>>))

\* the tool calls a client may make: a handler and its decoded arguments
ToolCalls ==
  [tool : {"HandleListHome", "HandleListScenesHandler"}, args : {<<>>}]
  \cup [tool : {"HandleSwitchHome"}, args : [Name : StrInputs]]
  \cup [tool : {"HandleRunScenesHandler"}, args : [Button : {0, 1}]]

NoToolCall == [tool |-> "none", args |-> <<>>]

\* the handler up to the return of the entry point it calls
HandlerEnter(tc) ==
  CASE tc.tool = "HandleListHome" -> HandleListHome(tc.args)
    [] tc.tool = "HandleSwitchHome" -> HandleSwitchHome(tc.args)
    [] tc.tool = "HandleListScenesHandler" -> HandleListScenesHandler(tc.args)
    [] tc.tool = "HandleRunScenesHandler" -> HandleRunScenesHandler(tc.args)

\* the handler from the return of its entry point on
HandlerLeave(tc, ret) ==
  CASE tc.tool = "HandleListHome" -> HandleListHomeReturn(tc.args, ret)
    [] tc.tool = "HandleSwitchHome" -> HandleSwitchHomeReturn(tc.args, ret)
    [] tc.tool = "HandleListScenesHandler" -> HandleListScenesHandlerReturn(tc.args, ret)
    [] tc.tool = "HandleRunScenesHandler" -> HandleRunScenesHandlerReturn(tc.args, ret)

\* ------------------------------------------------------- the HTTP server
API_TOKEN == <<"api-token">>

StatusNoContent == 204

StatusUnauthorized == 401

StatusInternalServerError == 500

\* strings.ToLower over the scheme names a client may send
ToLower(s) ==
  [i \in 1..Len(s) |->
     CASE s[i] = "Bearer" -> "bearer"
       [] s[i] = "BEARER" -> "bearer"
       [] s[i] = "Basic" -> "basic"
       [] OTHER -> s[i]]

\* the index of the first white space of s, Len(s) + 1 when there is none
RECURSIVE FirstSpace(_, _)
FirstSpace(s, i) ==
  IF i > Len(s) \/ IsSpace(s[i]) THEN i ELSE FirstSpace(s, i + 1)

\* strings.Fields
RECURSIVE Fields(_)
Fields(s) ==
  LET t == TrimLeft(s)
      n == FirstSpace(t, 1)
  IN IF t = <<>> THEN <<>>
     ELSE <<SubSeq(t, 1, n - 1)>> \o Fields(SubSeq(t, n, Len(t)))

\* the Authorization header values a client may send ("" when it sends none)
Authorizations ==
  {Empty,
   <<"Bearer", " ", "api-token">>,
   <<"bearer", " ", " ", "api-token">>,
   <<"Bearer", " ", "api-token", "x">>,
   <<"Bearer", " ", "API-TOKEN">>,
   <<"Bearer", " ", "wrong">>,
   <<"Bearer">>,
   <<"Bearer", " ", "api-token", " ", "x">>,
   <<"Basic", " ", "api-token">>,
   <<"api-token">>}

InboundRequests ==
  [method : {<<"OPTIONS">>, <<"GET">>, <<"POST">>}, authorization : Authorizations]

NoOut == HandlerReturn(simpleResult(<<>>))

\* a request as ServeHTTP gets it: nothing answered, nothing checked
Served(r) ==
  [pc |-> "answered", r |-> r, header |-> <<>>, status |-> 0, body |-> Empty,
   checked |-> FALSE, token |-> Empty, accepted |-> FALSE, reached |-> FALSE,
   tc |-> NoToolCall, out |-> NoOut]

\* http.Error(w, error, code)
Error(q, error, code) == [q EXCEPT !.status = code, !.body = error]

\* every token but the empty one is accepted
verifyAuth_AcceptsAll(token) ==
  IF token # Empty
  THEN [info |-> Ptr("TokenInfo"), err |-> Empty]
  ELSE [info |-> Nil, err |-> <<"invalid api key">>]

\* the TokenInfo expires ten years from now
verifyAuth(token) ==
  IF token = API_TOKEN
  THEN [info |-> Ptr("TokenInfo"), err |-> Empty]
  ELSE [info |-> Nil, err |-> <<"invalid api key">>]

\* auth.RequireBearerToken(verifyAuth, nil)(handler): the header must be the word
\* bearer and one token; an error of the verifier that is not auth.ErrInvalidToken
\* is answered with 500; otherwise the request goes on to the MCP handler
RequireBearerToken(q) ==
  LET fields == Fields(q.r.authorization)
  IN IF Len(fields) # 2 \/ ToLower(fields[1]) # <<"bearer">>
     THEN Error(q, <<"no bearer token">>, StatusUnauthorized)
     ELSE LET v == verifyAuth(fields[2])
              c == [q EXCEPT !.checked = TRUE, !.token = fields[2]]
          IN IF v.err # Empty
             THEN Error(c, v.err, StatusInternalServerError)
             ELSE [c EXCEPT !.accepted = TRUE, !.reached = TRUE, !.pc = "mcp"]

\* the OPTIONS request is answered and handed on all the same
enableCORS_NoReturn(r) ==
  LET q == [Served(r) EXCEPT !.header =
              [k \in {"Access-Control-Allow-Origin", "Access-Control-Allow-Credentials",
                      "Access-Control-Allow-Headers", "Access-Control-Allow-Methods"} |->
                 CASE k = "Access-Control-Allow-Origin" -> <<"*">>
                   [] k = "Access-Control-Allow-Credentials" -> <<"true">>
                   [] k = "Access-Control-Allow-Headers" ->
                        <<"Content-Type, Content-Length, Accept-Encoding, X-CSRF-Token, Authorization, accept, origin, Cache-Control, X-Requested-With">>
                   [] k = "Access-Control-Allow-Methods" ->
                        <<"POST, GET, OPTIONS, PUT, DELETE">>]]
  IN IF q.r.method = <<"OPTIONS">>
     THEN RequireBearerToken(Error(q, <<"No Content">>, StatusNoContent))
     ELSE RequireBearerToken(q)

enableCORS(r) ==
  LET q == [Served(r) EXCEPT !.header =
              [k \in {"Access-Control-Allow-Origin", "Access-Control-Allow-Credentials",
                      "Access-Control-Allow-Headers", "Access-Control-Allow-Methods"} |->
                 CASE k = "Access-Control-Allow-Origin" -> <<"*">>
                   [] k = "Access-Control-Allow-Credentials" -> <<"true">>
                   [] k = "Access-Control-Allow-Headers" ->
                        <<"Content-Type, Content-Length, Accept-Encoding, X-CSRF-Token, Authorization, accept, origin, Cache-Control, X-Requested-With">>
                   [] k = "Access-Control-Allow-Methods" ->
                        <<"POST, GET, OPTIONS, PUT, DELETE">>]]
  IN IF q.r.method = <<"OPTIONS">>
     THEN Error(q, <<"No Content">>, StatusNoContent)
     ELSE RequireBearerToken(q)

\* a request arrives and runs through enableCORS and RequireBearerToken
Accept(t) ==
  /\ phase = "serving"
  /\ inbound[t].pc = "idle"
  /\ \E r \in InboundRequests :
       inbound' = [inbound EXCEPT ![t] = enableCORS(r)]
  /\ UNCHANGED <<phase, DeviceID, AppID, AppSecret, secretReq, secretFetch, calls>>

\* the MCP handler dispatches a tools/call to its handler, which runs until its
\* entry point returns or blocks in client.Do
CallTool(t) ==
  /\ inbound[t].pc = "mcp"
  /\ calls[t].pc = "idle"
  /\ \E tc \in ToolCalls, now \in Timestamps, nonce \in Nonces, uuid \in Uuids :
       /\ inbound' = [inbound EXCEPT ![t] = [@ EXCEPT !.pc = "tool", !.tc = tc]]
       /\ calls' = [calls EXCEPT ![t] = Begin(HandlerEnter(tc), now, nonce, uuid)]
  /\ UNCHANGED <<phase, DeviceID, AppID, AppSecret, secretReq, secretFetch>>

\* the entry point has returned and the handler returns its result
ToolReturn(t) ==
  /\ inbound[t].pc = "tool"
  /\ calls[t].pc = "done"
  /\ inbound' = [inbound EXCEPT ![t] =
                   [@ EXCEPT !.pc = "returned",
                             !.out = HandlerLeave(inbound[t].tc, calls[t].ret)]]
  /\ calls' = [calls EXCEPT ![t] = IdleCall]
  /\ UNCHANGED <<phase, DeviceID, AppID, AppSecret, secretReq, secretFetch>>

\* the response is written (for a request that was no tool call, by the MCP
\* handler itself) and the goroutine is free again
Answer(t) ==
  /\ inbound[t].pc \in {"answered", "mcp", "returned"}
  /\ inbound' = [inbound EXCEPT ![t] = IdleRequest]
  /\ UNCHANGED <<phase, DeviceID, AppID, AppSecret, secretReq, secretFetch, calls>>

NextServer ==
  \/ InitDeviceID
  \/ InitAppID
  \/ InitAppSecret
  \/ RegisterTools
  \/ Serve
  \/ \E t \in Handlers : Accept(t)
  \/ \E t \in Handlers : CallTool(t)
  \/ \E t \in Goroutines : Respond(t)
  \/ \E t \in Handlers : ToolReturn(t)
  \/ \E t \in Handlers : Answer(t)

SpecServer == Init /\ [][NextServer]_vars

\* ================================================================= claims
\* a call that entered CallService and has returned
Returned(t) == calls[t].pc = "done" /\ calls[t].called

\* the HTTP exchange of the call gave a response with a body that was read
GotBody(t) ==
  /\ calls[t].pc = "done"
  /\ calls[t].exchange.kind = "response"
  /\ ~calls[t].exchange.readErr

\* the body decodes as the envelope: well-formed JSON, every field of its type
Decodes(body) ==
  /\ body.syntax
  /\ ~body.code.bad /\ ~body.message.bad /\ ~body.msgDetails.bad /\ ~body.result.bad

\* status 200 and a body that decodes as the envelope
GotEnvelope(t) ==
  /\ GotBody(t)
  /\ calls[t].exchange.status = 200
  /\ Decodes(calls[t].exchange.body)

\* C1: every CallService invocation returns exactly one of (non-nil result, empty
\* message) or (nil result, non-empty message): never both, never neither.
C1_ExactlyOneOutcome ==
  \A t \in Goroutines :
    Returned(t) =>
      \/ ~calls[t].cs.result.isNil /\ calls[t].cs.message = Empty
      \/ calls[t].cs.result.isNil /\ calls[t].cs.message # Empty

\* C2: whenever the returned message is non-empty the returned result is nil, on
\* every return path of httpPost and of Post.
C2_MessageExcludesResult ==
  \A t \in Goroutines :
    Returned(t) =>
      /\ calls[t].hp.message # Empty => calls[t].hp.result = Nil
      /\ calls[t].cs.message # Empty => calls[t].cs.result = Nil

C2_Witness ==
  \E t \in Goroutines :
    /\ Returned(t)
    /\ GotEnvelope(t)
    /\ calls[t].exchange.body.code.v = 7
    /\ calls[t].exchange.body.result.v = "r"
    /\ calls[t].cs.message = <<"d">>

\* C3: a 200 response whose body decodes as the envelope with code 0 and result R
\* makes CallService return (pointer to R, ""), whatever message and msgDetails are.
C3_SuccessReturnsResult ==
  \A t \in Goroutines :
    (Returned(t) /\ GotEnvelope(t) /\ calls[t].exchange.body.code.v = 0) =>
      calls[t].cs = [result |-> Ptr(calls[t].exchange.body.result.v),
                     message |-> Empty]

C3_Witness ==
  \E t \in Goroutines :
    /\ Returned(t)
    /\ GotEnvelope(t)
    /\ calls[t].exchange.body.code.v = 0
    /\ calls[t].exchange.body.result.v = "r"
    /\ calls[t].exchange.body.message.v = <<"m">>
    /\ calls[t].exchange.body.msgDetails.v = <<"d">>
    /\ calls[t].cs.result = Ptr("r")

\* C4: a 200 response whose body decodes as the envelope with code # 0 makes
\* CallService return a nil result and msgDetails when that is non-empty, else message.
C4_DetailsPreferred ==
  \A t \in Goroutines :
    (Returned(t) /\ GotEnvelope(t) /\ calls[t].exchange.body.code.v # 0) =>
      /\ calls[t].cs.result = Nil
      /\ calls[t].exchange.body.msgDetails.v # Empty =>
           calls[t].cs.message = calls[t].exchange.body.msgDetails.v
      /\ calls[t].exchange.body.msgDetails.v = Empty =>
           calls[t].cs.message = calls[t].exchange.body.message.v

C4_Witness ==
  \E t \in Goroutines :
    /\ Returned(t)
    /\ GotEnvelope(t)
    /\ calls[t].exchange.body.code.v = 7
    /\ calls[t].exchange.body.message.v = <<"m">>
    /\ calls[t].exchange.body.msgDetails.v = <<"d">>
    /\ calls[t].cs = [result |-> Nil, message |-> <<"d">>]

\* the strings a response body carries
BodyParts(body) ==
  Tokens(body.message.v) \cup Tokens(body.msgDetails.v) \cup {body.result.v}

\* the HTTP exchange of the call gave a response with a status other than 200
GotNon200(t) ==
  /\ Returned(t)
  /\ calls[t].exchange.kind = "response"
  /\ calls[t].exchange.status # 200

\* C5 as claimed: every response with a status other than 200 gives a nil result and
\* a message that contains the status code and no part of the body.
C5_Original ==
  \A t \in Goroutines :
    GotNon200(t) =>
      /\ calls[t].cs.result = Nil
      /\ Itoa(calls[t].exchange.status) \in Tokens(calls[t].cs.message)
      /\ Tokens(calls[t].cs.message) \cap BodyParts(calls[t].exchange.body) = {}

\* C5 amended: a response with a status other than 200 whose body was read gives a
\* nil result and the message "API call failed. status code: <status>", with no part
\* of the body, also when the body is a well-formed envelope with code 0; when the
\* read of the body fails the message is the read failure, whatever the status.
C5_Non200CitesStatus ==
  \A t \in Goroutines :
    GotNon200(t) =>
      /\ calls[t].cs.result = Nil
      /\ ~calls[t].exchange.readErr =>
           /\ calls[t].cs.message =
                <<"API call failed. status code: ", Itoa(calls[t].exchange.status)>>
           /\ Tokens(calls[t].cs.message) \cap BodyParts(calls[t].exchange.body) = {}
      /\ calls[t].exchange.readErr =>
           calls[t].cs.message = <<"Failed to read response: ">> \o calls[t].exchange.err

C5_Witness ==
  \E t \in Goroutines :
    /\ GotNon200(t)
    /\ calls[t].exchange.status = 503
    /\ Decodes(calls[t].exchange.body)
    /\ calls[t].exchange.body.code.v = 0
    /\ calls[t].exchange.body.result.v = "r"
    /\ "503" \in Tokens(calls[t].cs.message)

\* the message field json.Unmarshal has stored when it reports an error: none on a
\* syntax error, none when the field itself has the wrong type
PartialMessage(body) ==
  IF body.syntax /\ ~body.message.bad THEN body.message.v ELSE Empty

\* C6: a 200 response whose body fails to decode as the envelope is a failure (nil
\* result, non-empty message) although the decoded Code is 0: the message is the
\* partially decoded message field when non-empty, else the generic invalid-data text.
C6_DecodeFailureIsFailure ==
  \A t \in Goroutines :
    (Returned(t) /\ GotBody(t) /\ calls[t].exchange.status = 200
       /\ ~Decodes(calls[t].exchange.body)) =>
      /\ calls[t].cs.result = Nil
      /\ calls[t].cs.message # Empty
      /\ calls[t].cs.message =
           IF PartialMessage(calls[t].exchange.body) # Empty
           THEN PartialMessage(calls[t].exchange.body)
           ELSE <<"The received data is not in a valid JSON format. Please try again later.">>

C6_Witness ==
  \E t \in Goroutines :
    /\ Returned(t) /\ GotBody(t) /\ calls[t].exchange.status = 200
    /\ calls[t].exchange.body.syntax
    /\ calls[t].exchange.body.result.bad
    /\ calls[t].exchange.body.code.v = 0
    /\ calls[t].exchange.body.message.v = <<"m">>
    /\ calls[t].cs = [result |-> Nil, message |-> <<"m">>]

\* the params payload of the call cannot be serialized
Unserializable(t) ==
  calls[t].inv.op = "CallService" /\ calls[t].inv.args.data.kind = "chan"

\* C7 as claimed: every invocation of CallService has made exactly one POST when it
\* returns, for any params payload.
C7_Original ==
  \A t \in Goroutines : Returned(t) => calls[t].posts = 1

\* C7 amended: an invocation of CallService makes exactly one POST, to the base URL +
\* "/call", when its envelope can be serialized, and none when it cannot; it never
\* makes more than one (no retry on a transport error, a non-200 status or a failed
\* decode).
C7_OnePostUnlessUnserializable ==
  \A t \in Goroutines :
    calls[t].pc # "idle" =>
      /\ calls[t].posts <= 1
      /\ (calls[t].pc = "inflight") => calls[t].posts = 1
      /\ (Returned(t) /\ ~Unserializable(t)) =>
           /\ calls[t].posts = 1
           /\ calls[t].request.method = <<"POST">>
           /\ calls[t].request.url = API_BASE_URL \o <<"/call">>
           /\ calls[t].exchange.kind # "none"
      /\ (Returned(t) /\ Unserializable(t)) =>
           /\ calls[t].posts = 0
           /\ calls[t].cs.message # Empty

C7_Witness ==
  \E t \in Goroutines :
    /\ Returned(t)
    /\ calls[t].exchange.kind = "transport"
    /\ calls[t].posts = 1

\* a string that is empty or holds only white space
Blank(s) == \A i \in 1..Len(s) : s[i] = " "

\* the call returned a validation message without entering CallService
Rejected(t, ret) ==
  /\ calls[t].ret = ret
  /\ ~calls[t].called
  /\ calls[t].posts = 0
  /\ calls[t].request = NoRequest

\* C8: a wrapper called with an empty required input returns its fixed validation
\* message and makes no HTTP request (the first empty input decides the message).
C8_ValidationBeforeNetwork ==
  \A t \in Goroutines :
    calls[t].pc = "done" =>
      LET op == calls[t].inv.op
          a == calls[t].inv.args
      IN /\ (op = "SwitchHome" /\ Blank(a.homeName)) =>
              Rejected(t, RetBool(FALSE, <<"Home name cannot be empty">>))
         /\ (op = "RunScenes" /\ a.scenes = <<>>) =>
              Rejected(t, RetString(<<"Scene list cannot be empty">>))
         /\ (op = "Login" /\ (Blank(a.username) \/ Blank(a.password) \/ Blank(a.region))) =>
              Rejected(t, RetPtr(Nil,
                IF Blank(a.username) THEN <<"Username cannot be empty">>
                ELSE IF Blank(a.password) THEN <<"Password cannot be empty">>
                ELSE <<"Region cannot be empty">>))
         /\ (op = "DeviceControl" /\ (a.devices = <<>> \/ DOMAIN a.slots = {})) =>
              Rejected(t, RetString(
                IF a.devices = <<>> THEN <<"Device list cannot be empty">>
                ELSE <<"Control parameters cannot be empty">>))
         /\ (op = "AutomationConfig"
               /\ (Blank(a.scheduledTime) \/ a.endpointIDs = <<>>
                     \/ DOMAIN a.controlParams = {} \/ Blank(a.taskName))) =>
              Rejected(t, RetString(
                IF Blank(a.scheduledTime) THEN <<"Scheduled time cannot be empty">>
                ELSE IF a.endpointIDs = <<>> THEN <<"Device list cannot be empty">>
                ELSE IF DOMAIN a.controlParams = {}
                THEN <<"Control parameters cannot be empty">>
                ELSE <<"Task name cannot be empty">>))
         /\ (op = "DeviceLogQuery" /\ a.endpointIDs = <<>>) =>
              Rejected(t, RetString(<<"Device list cannot be empty">>))

C8_Witness ==
  \E t \in Goroutines :
    /\ calls[t].pc = "done"
    /\ calls[t].inv.op = "SwitchHome"
    /\ calls[t].inv.args.homeName = <<" ">>
    /\ calls[t].ret = RetBool(FALSE, <<"Home name cannot be empty">>)
    /\ calls[t].posts = 0

\* the remote call of the invocation succeeded: status 200 and an envelope with code 0
RemoteSucceeded(t) ==
  GotEnvelope(t) /\ calls[t].exchange.body.code.v = 0

\* the wrapper returned its success value
SuccessText(t) ==
  \/ calls[t].inv.op = "RunScenes"
       /\ calls[t].ret = RetString(<<"Scene executed successfully">>)
  \/ calls[t].inv.op = "DeviceControl"
       /\ calls[t].ret = RetString(<<"Device control success">>)
  \/ calls[t].inv.op = "AutomationConfig"
       /\ calls[t].ret = RetString(<<"Automation configuration successful">>)
  \/ calls[t].inv.op = "SwitchHome" /\ calls[t].ret = RetBool(TRUE, Empty)

\* C9: RunScenes, DeviceControl, AutomationConfig and SwitchHome return their success
\* value only when the remote call succeeded.
C9_SuccessOnlyOnRemoteSuccess ==
  \A t \in Goroutines :
    (calls[t].pc = "done" /\ SuccessText(t)) => RemoteSucceeded(t)

\* the four signature headers
SignatureHeaders ==
  {RequestSignatureHeaderAccessKey, RequestSignatureHeaderTimestamp,
   RequestSignatureHeaderNonce, RequestSignatureHeaderSignature}

\* C10: with an empty AppSecret calculateSignature returns "" for every method, path,
\* timestamp and body hash, the POST is still sent with the four signature headers,
\* X-Signature present and empty, and the call succeeds when the remote call does.
C10_EmptySecretStillSends ==
  \A t \in Goroutines :
    (AppSecret = Empty /\ calls[t].pc # "idle" /\ calls[t].called
       /\ ~Unserializable(t)) =>
      /\ \A method \in {<<"POST">>, <<"GET">>}, path \in {Empty, <<"/echo/mcp", "/call">>},
            timestamp \in Timestamps \cup {Empty},
            bodyHash \in {Empty, calculateSignatureRequestBodyHash(calls[t].request.body)} :
            calculateSignature(AppSecret, method, path, timestamp, bodyHash) = Empty
      /\ calls[t].posts = 1
      /\ SignatureHeaders \subseteq DOMAIN calls[t].request.header
      /\ calls[t].request.header[RequestSignatureHeaderSignature] = <<Empty>>
      /\ calls[t].request.header[RequestSignatureHeaderAccessKey] = <<AppID>>
      /\ Len(calls[t].request.header[RequestSignatureHeaderTimestamp]) = 1
      /\ Len(calls[t].request.header[RequestSignatureHeaderNonce]) = 1
      /\ RemoteSucceeded(t) =>
           (~calls[t].cs.result.isNil /\ calls[t].cs.message = Empty)

C10_Witness ==
  \E t \in Handlers :
    /\ AppSecret = Empty
    /\ Returned(t)
    /\ RemoteSucceeded(t)
    /\ calls[t].request.header[RequestSignatureHeaderSignature] = <<Empty>>
    /\ calls[t].cs.message = Empty

\* AppID as genAppID derives it from the DeviceID that is set
AppIDOfDeviceID == <<"mcp-", "md5[", "mcp-">> \o DeviceID \o <<"]">>

\* the identity triple is assigned in the order DeviceID, AppID, AppSecret, the
\* secret is fetched with the AppID, and no call runs before the three are set
IdentityInOrder ==
  /\ phase = "initDeviceID" =>
       DeviceID = Empty /\ AppID = Empty /\ AppSecret = Empty /\ secretReq = NoRequest
  /\ phase = "initAppID" =>
       DeviceID # Empty /\ AppID = Empty /\ AppSecret = Empty /\ secretReq = NoRequest
  /\ phase = "initSecret" =>
       DeviceID # Empty /\ AppID = AppIDOfDeviceID /\ AppSecret = Empty
         /\ secretReq = NoRequest
  /\ phase \in {"main", "registering", "serving"} =>
       /\ DeviceID # Empty
       /\ AppID = AppIDOfDeviceID
       /\ secretReq.url = API_BASE_URL \o <<"/secret", "?", "key", "=">> \o AppID
  /\ \A t \in ConcGoroutines :
       calls[t].pc # "idle" =>
         /\ phase \in {"registering", "serving"}
         /\ calls[t].posts = 1 =>
              /\ calls[t].request.header[RequestSignatureHeaderAccessKey] = <<AppID>>
              /\ calls[t].request.body[1].DeviceID = DeviceID

\* a step writes one of the three only in its own start-up phase
IdentityWrittenOnce ==
  /\ DeviceID' # DeviceID => phase = "initDeviceID"
  /\ AppID' # AppID => phase = "initAppID"
  /\ AppSecret' # AppSecret => phase = "initSecret"
  /\ phase \in {"main", "registering", "serving"} =>
       UNCHANGED <<DeviceID, AppID, AppSecret>>

\* two calls of the same entry point with the same arguments and the same HTTP
\* exchange have the same outcome, however the two were interleaved
CallsIndependent ==
  \A t \in ConcHandlers, u \in ConcGoroutines :
    (calls[t].pc = "done" /\ calls[u].pc = "done"
       /\ calls[t].inv = calls[u].inv /\ calls[t].exchange = calls[u].exchange) =>
      /\ calls[t].hp = calls[u].hp
      /\ calls[t].cs = calls[u].cs
      /\ calls[t].ret = calls[u].ret

\* C11: DeviceID, AppID (derived from DeviceID) and AppSecret (fetched with AppID) are
\* assigned once, in that order, before the first CallService runs, and nothing
\* writes them afterwards; concurrent calls' outcomes depend only on their own HTTP
\* exchange.
C11_IdentityOnceCallsIndependent ==
  /\ []IdentityInOrder
  /\ [][IdentityWrittenOnce]_vars
  /\ []CallsIndependent

C11_Witness ==
  /\ calls["g1"].pc = "done"
  /\ calls["g2"].pc = "inflight"
  /\ calls["g1"].inv = calls["g2"].inv
  /\ calls["g1"].request.header[RequestSignatureHeaderTimestamp]
       # calls["g2"].request.header[RequestSignatureHeaderTimestamp]
  /\ calls["g1"].exchange.kind = "response"
  /\ AppSecret # Empty

\* the ways the GET of /secret fails
FetchFailed(g) ==
  \/ NewRequestErr(API_BASE_URL \o <<"/secret">>)
  \/ g.kind = "transport"
  \/ g.status # StatusOK
  \/ g.readErr
  \/ ~g.syntax
  \/ "secret_key" \notin DOMAIN g.obj

\* genSecret has just returned from a failed fetch
SecretFetchFailed == phase = "main" /\ FetchFailed(secretFetch.reply)

\* a request of goroutine t is on the wire or was
Sent(t) == calls[t].pc \in {"inflight", "done"} /\ calls[t].posts = 1

\* C12: when the fetch of the secret fails in any way (URL parse error, transport
\* error, non-200 status, unreadable or undecodable body, no secret_key field)
\* genSecret returns "" and logs the failure; start-up goes on to registerTools and
\* to serving, and every later POST is sent with an empty X-Signature.
C12_FailedFetchStillServes ==
  /\ [](SecretFetchFailed => (AppSecret = Empty /\ secretFetch.log # Empty))
  /\ [](secretFetch.log # Empty =>
          /\ AppSecret = Empty
          /\ \A t \in ConcGoroutines :
               Sent(t) =>
                 calls[t].request.header[RequestSignatureHeaderSignature] = <<Empty>>)
  /\ (SecretFetchFailed ~> (phase = "serving"))

C12_Witness ==
  /\ phase = "serving"
  /\ secretFetch.log = <<"Secret key not found in response">>
  /\ \E t \in ConcHandlers :
       /\ Sent(t)
       /\ calls[t].request.header[RequestSignatureHeaderSignature] = <<Empty>>

\* the result a handler returned: no error, and text content, at least one item
TextResult(out) ==
  /\ out.err = Nil
  /\ Len(out.result.Content) >= 1
  /\ \A i \in 1..Len(out.result.Content) : out.result.Content[i].type = "text"

\* the text a handler makes of the message of a failed call
FailureText(tc, message) ==
  IF tc.tool = "HandleListScenesHandler" THEN ReplaceAllScene(message) ELSE message

\* the handler on goroutine t returns in this step
Returns(t) == inbound[t].pc = "tool" /\ inbound'[t].pc = "returned"

\* C13: every tool handler (HandleListHome, HandleSwitchHome, HandleListScenesHandler,
\* HandleRunScenesHandler) returns a nil error and a result with at least one text
\* content item, for every argument and every outcome of the remote call; the message
\* of a failed call is returned as the one text item, never as an error.
C13_HandlersAnswerInText ==
  /\ [](\A t \in Handlers : inbound[t].pc = "returned" => TextResult(inbound[t].out))
  /\ [][\A t \in Handlers :
          (Returns(t) /\ calls[t].called /\ calls[t].cs.message # Empty) =>
            /\ inbound'[t].out.err = Nil
            /\ inbound'[t].out.result.Content =
                 <<[type |-> "text",
                    Text |-> FailureText(inbound[t].tc, calls[t].cs.message)]>>]_vars

C13_Witness ==
  \E t \in Handlers :
    /\ inbound[t].pc = "returned"
    /\ inbound[t].tc.tool = "HandleListScenesHandler"
    /\ inbound[t].out.err = Nil
    /\ inbound[t].out.result.Content =
         <<[type |-> "text",
            Text |-> <<"An error occurred while requesting the cloud service. ",
                       "dial tcp: timeout">>]>>

\* C15: a request reaches the MCP handler, and so a tool handler, only when
\* verifyAuth accepted its bearer token; verifyAuth accepts the token exactly when it
\* equals API_TOKEN; an OPTIONS request is answered 204 by enableCORS and reaches
\* neither the token check nor the MCP handler.
C15_OnlyVerifiedReachMcp ==
  \A t \in Handlers :
    /\ calls[t].pc # "idle" => inbound[t].pc = "tool"
    /\ inbound[t].pc # "idle" =>
         LET q == inbound[t]
         IN /\ q.pc \in {"mcp", "tool", "returned"} => q.reached
            /\ q.reached => (q.checked /\ q.accepted /\ q.token = API_TOKEN)
            /\ q.checked => (q.accepted <=> q.token = API_TOKEN)
            /\ ~q.checked => ~q.accepted
            /\ q.r.method = <<"OPTIONS">> =>
                 /\ q.pc = "answered"
                 /\ q.status = StatusNoContent
                 /\ ~q.checked
                 /\ ~q.reached

C15_Witness ==
  \E t \in Handlers :
    /\ inbound[t].pc = "tool"
    /\ inbound[t].r.authorization = <<"bearer", " ", " ", "api-token">>
    /\ inbound[t].token = API_TOKEN
    /\ calls[t].pc = "inflight"

\* hex(HMAC_SHA256(secret, "POST" \n uri \n T \n sha256hex(B))), written out
ReferenceSignature(secret, uri, T, B) ==
  <<"hmac-sha256[">> \o secret \o <<"|">>
    \o <<"POST">> \o <<"\n">> \o uri \o <<"\n">> \o T \o <<"\n">>
    \o (<<"sha256[">> \o B \o <<"]">>) \o <<"]">>

\* the requests signed with a secret
Signed == {t \in Goroutines : AppSecret # Empty /\ Sent(t)}

\* C14: every POST sent with a non-empty secret carries one X-Signature, equal to
\* hex(HMAC_SHA256(AppSecret, "POST" \n request URI \n T \n sha256hex(B))) with T the
\* value of its own X-Timestamp header and B its own body; the signature is a
\* function of these values alone, whatever calls were made before.
C14_SignatureCoversRequest ==
  /\ \A t \in Signed :
       LET request == calls[t].request
       IN /\ request.method = <<"POST">>
          /\ Len(request.header[RequestSignatureHeaderTimestamp]) = 1
          /\ request.header[RequestSignatureHeaderSignature] =
               <<ReferenceSignature(AppSecret, RequestURI(request.url),
                                    request.header[RequestSignatureHeaderTimestamp][1],
                                    request.body)>>
  /\ \A t \in Signed, u \in Signed :
       (/\ calls[t].request.url = calls[u].request.url
        /\ calls[t].request.body = calls[u].request.body
        /\ calls[t].request.header[RequestSignatureHeaderTimestamp]
             = calls[u].request.header[RequestSignatureHeaderTimestamp]) =>
         calls[t].request.header[RequestSignatureHeaderSignature]
           = calls[u].request.header[RequestSignatureHeaderSignature]

C14_Witness ==
  \E t \in Handlers :
    /\ t \in Signed
    /\ calls[MainThread].pc = "idle"
    /\ calls[t].inv.op = "RunScenes"
    /\ calls[t].request.header[RequestSignatureHeaderTimestamp] = <<<<"1700000001">>>>
    /\ calls[t].request.header[RequestSignatureHeaderSignature] # <<Empty>>
====
